---- MODULE Spec2Model ----
(***************************************************************************)
(* TD3 agent of td3_pytorch/agent.py: the replay buffer, the constructor,  *)
(* the episode loop of Agent.run and the learning step Agent.train.        *)
(*                                                                         *)
(* Reals are modelled by integers.  Network parameters are abstract        *)
(* values of Params; an optimizer step replaces a live parameter by any    *)
(* value of Params.  The learning target is kept in units of 1/discount.den*)
(* so that the discount factor num/den stays exact.                        *)
(***************************************************************************)
EXTENDS Integers, Sequences, FiniteSets, TLC

(* ------------------------------ bounds --------------------------------- *)
\* largest replay_memory_size drawn by Init
MaxCap == 3
\* largest mini_batch_size drawn by Init
MaxBatch == 2
\* largest policy_freq drawn by Init
MaxFreq == 2
\* largest max_timestep drawn by Init
MaxTimestep == 2
\* largest max_episodes drawn by Init
MaxEpisodes == 2
\* network parameters are 0..MaxParam
MaxParam == 1
\* target critic outputs are 0..MaxQ
MaxQ == 1
\* batch-row rewards of the learning-target specification are -MaxReward..MaxReward
MaxReward == 1
\* an exploration noise draw is at most MaxNoise times its scale action_high
MaxNoise == 1
\* ReplayBuffer.add calls of the buffer specification
MaxAdds == 5
\* transitions offered to the buffer specification are numbered 1..MaxItem
MaxItem == 5
\* Agent.train calls of the learning-step specification
MaxTrain == 5
\* environment steps of one run of the episode-loop specification
MaxSteps == 4
\* the checkpoint check of Agent.run happens every AvgWindow episodes over
\* the last AvgWindow returns; the code fixes both to 100 (agent.py:233-234),
\* the model scales them down together
AvgWindow == 2
\* number of checkpoint checks a run of the checkpoint specification makes
MaxChecks == 3

Params == 0..MaxParam
QVals == (0 - MaxQ)..MaxQ

\* hyperparameters['discount'] as a fraction, and hyperparameters['tau']
discount == [num |-> 99, den |-> 100]
tau == [num |-> 1, den |-> 2]

VARIABLES
  hp,                  \* hyperparameters and command-line flags
  pc,                  \* position in __init__ / run
  buffer,              \* ReplayBuffer.buffer
  added,               \* every transition handed to ReplayBuffer.add, in order
  actor, actor_target, critic, critic_target,
  ckpt,                \* the checkpoint files <name>_actor.pth, <name>_critic.pth
  saves,               \* episodes (1-based) at whose end Agent.save ran
  total_it,            \* Agent.total_it
  policy_updates,      \* number of train calls that took the delayed branch
  row,                 \* one batch row: reward, done and the target critic's Q1, Q2
  target_Q,            \* target_Q of that row, in units of 1/discount.den
  rewards_per_episode,
  means,               \* the 100-episode means computed so far
  best_average_reward,
  episode, step_count, terminated, truncated, episode_reward,
  action,              \* the action last passed to env.step
  env_out,             \* what env.step last returned
  steps                \* environment steps the run may still take

vars == <<hp, pc, buffer, added, actor, actor_target, critic, critic_target,
          ckpt, saves, total_it, policy_updates, row, target_Q,
          rewards_per_episode, means, best_average_reward, episode,
          step_count, terminated, truncated, episode_reward, action,
          env_out, steps>>

netVars == <<actor, actor_target, critic, critic_target>>
trainVars == <<total_it, policy_updates>>
targetVars == <<row, target_Q>>
ckptVars == <<ckpt, saves, rewards_per_episode, means, best_average_reward>>
loopVars == <<episode, step_count, terminated, truncated, episode_reward>>
envVars == <<action, env_out, steps>>

(* ------------------------------ helpers -------------------------------- *)
Min(a, b) == IF a <= b THEN a ELSE b
Max(a, b) == IF a >= b THEN a ELSE b

RECURSIVE SumSeq(_)
SumSeq(s) == IF s = <<>> THEN 0 ELSE Head(s) + SumSeq(Tail(s))

\* python s[-n:]
LastN(s, n) == IF Len(s) <= n THEN s ELSE SubSeq(s, Len(s) - n + 1, Len(s))

\* -np.inf
NegInf == [inf |-> TRUE, num |-> 0, den |-> 1]
\* np.mean of a non-empty list, as a fraction
Mean(s) == [inf |-> FALSE, num |-> SumSeq(s), den |-> Len(s)]
\* a > b for a finite mean a and a mean or -inf b
Greater(a, b) == b.inf \/ a.num * b.den > b.num * a.den

(* ---------------------------- ReplayBuffer ----------------------------- *)
\* a full buffer that drops its newest element instead of its oldest
AddDropNewest(buf, t, max_size) ==
  IF max_size = 0 THEN buf
  ELSE IF Len(buf) >= max_size THEN Append(SubSeq(buf, 1, Len(buf) - 1), t)
  ELSE Append(buf, t)

\* deque(maxlen=max_size).append: a full deque drops its oldest element
Add(buf, t, max_size) ==
  IF max_size = 0 THEN buf
  ELSE IF Len(buf) >= max_size THEN Append(Tail(buf), t)
  ELSE Append(buf, t)

Size(buf) == Len(buf)

\* random.sample(population, k) raises ValueError when k exceeds the population
SampleFails(buf, batch_size) == batch_size > Len(buf)

\* A stored transition.  Observations are opaque to every operation modelled
\* here, so the state and next_state components are left out.
Transition(a, r, d) == [action |-> a, reward |-> r, done |-> d]

(* ------------------------------ networks ------------------------------- *)
\* TD3_Actor clamps its output to [action_low, action_high]
PolicyOut(h) == h.action_low..h.action_high

\* np.random.normal(0, action_high * policy_noise), cut off at MaxNoise scales
NoiseDraws(h) == (0 - h.action_high * MaxNoise)..(h.action_high * MaxNoise)

\* ndarray.clip(lo, hi) = minimum(hi, maximum(x, lo))
Clip(x, lo, hi) == Min(hi, Max(x, lo))

\* the action handed to env.step
SelectAction(h, out, noise) ==
  IF h.is_training THEN Clip(out + noise, 0 - h.action_high, h.action_high)
  ELSE out

\* target_param <- tau * param + (1 - tau) * target_param
SoftUpdate(param, target_param) ==
  (tau.num * param + (tau.den - tau.num) * target_param) \div tau.den

\* torch.FloatTensor of a bool
Float(b) == IF b THEN 1 ELSE 0

\* the larger of the two target estimates instead of the smaller
TargetQMax(reward, done, q1, q2) ==
  reward * discount.den + (1 - Float(done)) * discount.num * Max(q1, q2)

\* target_Q = reward + (1 - done) * discount * min(target_Q1, target_Q2),
\* in units of 1/discount.den
TargetQ(reward, done, q1, q2) ==
  reward * discount.den + (1 - Float(done)) * discount.num * Min(q1, q2)

\* the counter tested after its increment
DelayedUpdateAfter(it, policy_freq) == (it + 1) % policy_freq = 0

\* the delayed branch of train
DelayedUpdate(it, policy_freq) == it % policy_freq = 0

(* ----------------------------- Agent.__init__ -------------------------- *)
\* the constructor calls load when continuing training and when evaluating
LoadsCheckpoint(h) == (h.is_training /\ h.continue_training) \/ ~h.is_training

AgentInit ==
  /\ pc = "init"
  /\ \E a \in Params, c \in Params :            \* random initialisation
       /\ actor_target' = a                     \* load_state_dict(actor.state_dict())
       /\ critic_target' = c
       /\ actor' = IF LoadsCheckpoint(hp) THEN ckpt.actor ELSE a
       /\ critic' = IF LoadsCheckpoint(hp) THEN ckpt.critic ELSE c
  /\ buffer' = <<>>
  /\ rewards_per_episode' = <<>>
  /\ total_it' = 0
  /\ pc' = "constructed"
  /\ UNCHANGED <<hp, added, ckpt, saves, policy_updates, targetVars, means,
                 best_average_reward, loopVars, envVars>>

(* ------------------------------- Agent.train --------------------------- *)
TrainBody ==
  IF SampleFails(buffer, hp.batch_size)
  THEN /\ pc' = "crashed"
       /\ UNCHANGED <<netVars, trainVars>>
  ELSE /\ pc' = "advance"
       /\ \E c \in Params :                     \* critic_optimizer.step()
            /\ critic' = c
            /\ IF DelayedUpdate(total_it, hp.policy_freq)
               THEN \E a \in Params :           \* actor_optimizer.step()
                      /\ actor' = a
                      /\ critic_target' = SoftUpdate(c, critic_target)
                      /\ actor_target' = SoftUpdate(a, actor_target)
                      /\ policy_updates' = policy_updates + 1
               ELSE UNCHANGED <<actor, actor_target, critic_target, policy_updates>>
       /\ total_it' = total_it + 1

(* -------------------------------- Agent.run ---------------------------- *)
RunStart ==
  /\ pc = "constructed"
  /\ best_average_reward' = NegInf
  /\ episode' = 0
  /\ pc' = "episode"
  /\ UNCHANGED <<hp, buffer, added, netVars, ckpt, saves, trainVars, targetVars,
                 rewards_per_episode, means, step_count, terminated, truncated,
                 episode_reward, envVars>>

\* for episode in self.max_episodes: itertools.count() when endless or
\* evaluating, range(max_episodes) otherwise
MoreEpisodes == hp.endless \/ ~hp.is_training \/ episode < hp.max_episodes

EpisodeStart ==
  /\ pc = "episode"
  /\ MoreEpisodes
  /\ steps > 0
  /\ terminated' = FALSE
  /\ truncated' = FALSE
  /\ episode_reward' = 0
  /\ step_count' = 0
  /\ IF hp.is_training
     THEN UNCHANGED <<actor, critic>>
     ELSE actor' = ckpt.actor /\ critic' = ckpt.critic       \* self.load
  /\ pc' = "loop"
  /\ UNCHANGED <<hp, buffer, added, actor_target, critic_target, ckpt, saves,
                 trainVars, targetVars, rewards_per_episode, means,
                 best_average_reward, episode, envVars>>

\* while(not terminated and not truncated and not step_count == max_timestep)
LoopCond == ~terminated /\ ~truncated /\ step_count # hp.max_timestep

\* the step limit not forced into the terminal flag
TerminalEnvOnly(count, env_terminated) == env_terminated

\* the step limit forced one step late
TerminalLate(count, env_terminated) == count = hp.max_timestep \/ env_terminated

\* terminated = step_count == self.max_timestep - 1 or terminated
Terminal(count, env_terminated) == count = hp.max_timestep - 1 \/ env_terminated

\* transitions stored in evaluation too
StoresAlways(h) == TRUE

\* whether the step stores its transition
Stores(h) == h.is_training

RunStep ==
  /\ pc = "loop"
  /\ LoopCond
  /\ steps > 0
  /\ \E out \in PolicyOut(hp), noise \in NoiseDraws(hp), r \in 0..hp.max_reward,
        term \in BOOLEAN, trunc \in BOOLEAN :
       LET a == SelectAction(hp, out, noise)
           d == Terminal(step_count, term)
       IN /\ action' = a
          /\ env_out' = [reward |-> r, terminated |-> term, truncated |-> trunc]
          /\ terminated' = d
          /\ truncated' = trunc
          /\ IF Stores(hp)
             THEN /\ buffer' = Add(buffer, Transition(a, r, d), hp.replay_buffer_size)
                  /\ added' = Append(added, Transition(a, r, d))
                  /\ pc' = "check"
             ELSE /\ UNCHANGED <<buffer, added>>
                  /\ pc' = "advance"
  /\ steps' = steps - 1
  /\ UNCHANGED <<hp, netVars, ckptVars, trainVars, targetVars, episode,
                 step_count, episode_reward>>

\* the size check left out
TrainGuardNoSize == step_count % hp.policy_freq = 0

\* if self.replay_buffer.size() > self.batch_size and step_count % self.policy_freq == 0
TrainGuard == Size(buffer) > hp.batch_size /\ step_count % hp.policy_freq = 0

Train ==
  /\ pc = "check"
  /\ TrainGuard
  /\ TrainBody
  /\ UNCHANGED <<hp, buffer, added, ckptVars, targetVars, loopVars, envVars>>

StepEnd ==
  /\ pc = "advance" \/ (pc = "check" /\ ~TrainGuard)
  /\ episode_reward' = episode_reward + env_out.reward
  /\ step_count' = step_count + 1
  /\ pc' = "loop"
  /\ UNCHANGED <<hp, buffer, added, netVars, ckptVars, trainVars, targetVars,
                 episode, terminated, truncated, envVars>>

\* if (episode + 1) % 100 == 0
CheckDue(ep) == (ep + 1) % AvgWindow = 0

\* a tie with the best average counted as a new best
NewBestOrEqual(avg, best) == best.inf \/ avg.num * best.den >= best.num * avg.den

\* if average_reward > best_average_reward
NewBest(avg, best) == Greater(avg, best)

\* The end of an episode.  The graph written by save_graph and the
\* best_reward tracker, which only feeds a log line, are left out.
EpisodeEnd ==
  /\ pc = "loop"
  /\ ~LoopCond
  /\ rewards_per_episode' = Append(rewards_per_episode, episode_reward)
  /\ IF hp.is_training /\ CheckDue(episode)
     THEN LET average_reward == Mean(LastN(rewards_per_episode', AvgWindow))
          IN /\ means' = Append(means, average_reward)
             /\ IF NewBest(average_reward, best_average_reward)
                THEN /\ best_average_reward' = average_reward
                     /\ ckpt' = [actor |-> actor, critic |-> critic]   \* self.save
                     /\ saves' = Append(saves, episode + 1)
                ELSE UNCHANGED <<best_average_reward, ckpt, saves>>
     ELSE UNCHANGED <<means, best_average_reward, ckpt, saves>>
  /\ episode' = episode + 1
  /\ pc' = "episode"
  /\ UNCHANGED <<hp, buffer, added, netVars, trainVars, targetVars, step_count,
                 terminated, truncated, episode_reward, envVars>>

RunEnd ==
  /\ pc = "episode"
  /\ ~MoreEpisodes
  /\ pc' = "done"
  /\ UNCHANGED <<hp, buffer, added, netVars, ckptVars, trainVars, targetVars,
                 loopVars, envVars>>

(* --------------------------- configurations ---------------------------- *)
Config(train, endl, cont, cap, batch, freq, maxt, maxep, lo, hi, maxr) ==
  [is_training |-> train, endless |-> endl, continue_training |-> cont,
   replay_buffer_size |-> cap, batch_size |-> batch, policy_freq |-> freq,
   max_timestep |-> maxt, max_episodes |-> maxep,
   action_low |-> lo, action_high |-> hi, max_reward |-> maxr]

\* buffer and learning-step scheduling: every capacity, batch size,
\* policy_freq, step limit and episode limit, in an environment with one
\* action and one reward
SchedConfigs ==
  {Config(TRUE, FALSE, FALSE, cap, batch, freq, maxt, maxep, 0, 0, 0) :
     cap \in 1..MaxCap, batch \in 1..MaxBatch, freq \in 1..MaxFreq,
     maxt \in 1..MaxTimestep, maxep \in 1..MaxEpisodes}

\* endless training: the episode limit is ignored
EndlessConfigs ==
  {Config(TRUE, TRUE, FALSE, 2, 1, 1, maxt, 1, 0, 0, 0) : maxt \in 1..MaxTimestep}

\* construction modes and action selection: fresh training, continued
\* training and evaluation, with symmetric and asymmetric action bounds
ModeConfigs ==
  {Config(train, FALSE, cont, 1, 1, 1, maxt, 1, lo, 1, 0) :
     train \in BOOLEAN, cont \in BOOLEAN, maxt \in 1..MaxTimestep,
     lo \in {0 - 1, 0}}

\* delayed-update cadence: one-step episodes, a learning step in each but
\* the first
CadenceConfigs ==
  {Config(TRUE, FALSE, FALSE, 2, 1, freq, 1, MaxTrain + 1, 0, 0, 0) :
     freq \in 1..MaxFreq}

\* checkpointing: one-step episodes with returns 0 or 1, no learning step
CkptConfigs ==
  {Config(TRUE, FALSE, FALSE, 1, 1, 1, 1, MaxChecks * AvgWindow, 0, 0, 1)}

InitCommon ==
  /\ buffer = <<>>
  /\ added = <<>>
  /\ actor = 0 /\ actor_target = 0 /\ critic = 0 /\ critic_target = 0
  /\ saves = <<>>
  /\ total_it = 0
  /\ policy_updates = 0
  /\ target_Q = 0
  /\ rewards_per_episode = <<>>
  /\ means = <<>>
  /\ best_average_reward = NegInf
  /\ episode = 0 /\ step_count = 0
  /\ terminated = FALSE /\ truncated = FALSE
  /\ episode_reward = 0
  /\ action = 0
  /\ env_out = [reward |-> 0, terminated |-> FALSE, truncated |-> FALSE]

\* the checkpoint files are read only when the constructor or an evaluation
\* episode loads them
InitRun(configs, budget) ==
  /\ InitCommon
  /\ row = [reward |-> 0, done |-> FALSE, q1 |-> 0, q2 |-> 0]
  /\ pc = "init"
  /\ hp \in configs
  /\ ckpt \in IF LoadsCheckpoint(hp) THEN [actor : Params, critic : Params]
              ELSE {[actor |-> 0, critic |-> 0]}
  /\ steps = budget

Init ==
  \/ InitRun(SchedConfigs, MaxSteps)
  \/ InitRun(EndlessConfigs, MaxSteps)
  \/ InitRun(ModeConfigs, MaxSteps)
  \/ InitRun(CadenceConfigs, MaxTrain + 1)
  \/ InitRun(CkptConfigs, MaxChecks * AvgWindow)

Next ==
  \/ AgentInit
  \/ RunStart
  \/ EpisodeStart
  \/ RunStep
  \/ Train
  \/ StepEnd
  \/ EpisodeEnd
  \/ RunEnd

Spec == Init /\ [][Next]_vars

(* -------------------- ReplayBuffer on its own -------------------------- *)
\* a buffer of every capacity, fed any sequence of numbered transitions
BufferAdd ==
  /\ pc = "buffer"
  /\ steps > 0
  /\ \E i \in 1..MaxItem :
       /\ buffer' = Add(buffer, Transition(0, i, FALSE), hp.replay_buffer_size)
       /\ added' = Append(added, Transition(0, i, FALSE))
  /\ steps' = steps - 1
  /\ UNCHANGED <<hp, pc, netVars, ckptVars, trainVars, targetVars, loopVars,
                 action, env_out>>

InitBuffer ==
  /\ InitCommon
  /\ row = [reward |-> 0, done |-> FALSE, q1 |-> 0, q2 |-> 0]
  /\ pc = "buffer"
  /\ hp \in {Config(TRUE, FALSE, FALSE, cap, 1, 1, 1, 1, 0, 0, 0) : cap \in 1..MaxCap}
  /\ ckpt = [actor |-> 0, critic |-> 0]
  /\ steps = MaxAdds

NextBuffer == BufferAdd

SpecBuffer == InitBuffer /\ [][NextBuffer]_vars

(* ------------------- the learning target on its own -------------------- *)
\* one batch row with any reward, terminal flag and target critic outputs
TargetStep ==
  /\ pc = "target"
  /\ target_Q' = TargetQ(row.reward, row.done, row.q1, row.q2)
  /\ pc' = "targeted"
  /\ UNCHANGED <<hp, buffer, added, netVars, ckptVars, trainVars, row, loopVars,
                 envVars>>

InitTarget ==
  /\ InitCommon
  /\ row \in [reward : (0 - MaxReward)..MaxReward, done : BOOLEAN,
              q1 : QVals, q2 : QVals]
  /\ pc = "target"
  /\ hp = Config(TRUE, FALSE, FALSE, 1, 1, 1, 1, 1, 0, 0, 0)
  /\ ckpt = [actor |-> 0, critic |-> 0]
  /\ steps = 0

NextTarget == TargetStep

SpecTarget == InitTarget /\ [][NextTarget]_vars

(* ------------------------------- claims -------------------------------- *)
Last(s) == s[Len(s)]
Fresh == hp.is_training /\ ~hp.continue_training
\* a >= b for means a, b, either of which may be -inf
AtLeast(a, b) == b.inf \/ (~a.inf /\ a.num * b.den >= b.num * a.den)
\* ceiling of a / b
CeilDiv(a, b) == (a + b - 1) \div b

\* C1: the buffer never holds more than its capacity, and it always holds
\* exactly the most recently added transitions, up to its capacity, in
\* insertion order
C1_Capacity ==
  /\ Size(buffer) <= hp.replay_buffer_size
  /\ buffer = LastN(added, hp.replay_buffer_size)

\* capacity 3 and five distinct insertions t1..t5 leave t3, t4, t5
C1_Witness ==
  /\ hp.replay_buffer_size = 3
  /\ added = [i \in 1..5 |-> Transition(0, i, FALSE)]
  /\ buffer = [i \in 1..3 |-> Transition(0, i + 2, FALSE)]

\* C2 as stated: after N learning steps of a fresh agent the policy and the
\* targets have been updated floor(N / policy_freq) times
C2_FloorCount == Fresh => policy_updates = total_it \div hp.policy_freq

\* C2 amended: after N learning steps of a fresh agent the policy and the
\* targets have been updated ceil(N / policy_freq) times, on the steps whose
\* counter is a multiple of policy_freq; every other learning step leaves
\* the policy and both targets alone
C2_Cadence ==
  /\ [](Fresh => policy_updates = CeilDiv(total_it, hp.policy_freq))
  /\ [][(total_it' = total_it + 1 /\ total_it % hp.policy_freq = 0)
          => policy_updates' = policy_updates + 1]_vars
  /\ [][(total_it' = total_it + 1 /\ total_it % hp.policy_freq # 0)
          => /\ actor' = actor
             /\ actor_target' = actor_target
             /\ critic_target' = critic_target
             /\ policy_updates' = policy_updates]_vars

\* three learning steps with policy_freq 2: updates on the first and third
C2_Witness ==
  /\ Fresh
  /\ hp.policy_freq = 2
  /\ total_it = 3
  /\ policy_updates = 2

\* C3: sample is never called with fewer stored transitions than the batch
\* size: no learning step fails in sample, and every learning step starts
\* with at least batch_size transitions stored
C3_SampleGuarded ==
  /\ [](pc # "crashed")
  /\ [][total_it' # total_it => Size(buffer) >= hp.batch_size]_vars

\* a learning step has run with batch size 2
C3_Witness ==
  /\ total_it > 0
  /\ hp.batch_size = 2
  /\ pc = "advance"

\* C4: in training no episode takes more than max_timestep steps, and the
\* transition stored for step max_timestep - 1 is terminal
C4_StepLimit ==
  hp.is_training =>
    /\ step_count <= hp.max_timestep
    /\ (pc = "check" /\ step_count = hp.max_timestep - 1) => Last(buffer).done

\* the last in-budget step, not ended by the environment, stored as terminal
C4_Witness ==
  /\ hp.is_training
  /\ hp.max_timestep = 2
  /\ pc = "check"
  /\ step_count = hp.max_timestep - 1
  /\ ~env_out.terminated /\ ~env_out.truncated
  /\ Last(buffer).done

\* C5: when construction completes each target equals its live network
C5_TargetsCopyLive ==
  pc = "constructed" => actor_target = actor /\ critic_target = critic

\* C6: the action passed to the environment lies in [action_low, action_high]
C6_ActionInBounds ==
  pc \in {"check", "advance"} =>
    hp.action_low <= action /\ action <= hp.action_high

\* C7: the target of a terminal row is its reward; the target of any other
\* row is its reward plus discount times the smaller target estimate
C7_Target ==
  pc = "targeted" =>
    /\ row.done => target_Q = row.reward * discount.den
    /\ ~row.done =>
         target_Q = row.reward * discount.den
                    + discount.num * (IF row.q1 <= row.q2 THEN row.q1 ELSE row.q2)

\* a non-terminal row whose two target estimates differ
C7_Witness ==
  /\ pc = "targeted"
  /\ ~row.done
  /\ row.q1 > row.q2
  /\ row.reward # 0

\* C8: in evaluation nothing is stored, no learning step runs and the
\* targets stay as constructed
C8_EvalFrame ==
  /\ [](~hp.is_training => buffer = <<>> /\ total_it = 0)
  /\ [][(~hp.is_training /\ pc # "init")
          => actor_target' = actor_target /\ critic_target' = critic_target]_vars

\* an evaluation run in its second episode, after a step of it
C8_Witness ==
  /\ ~hp.is_training
  /\ episode >= 1
  /\ step_count >= 1

\* C9: a checkpoint is saved only at the end of an episode whose count is a
\* multiple of the window, and only when that window's mean is greater than
\* every earlier one; the first check saves; the best average is the
\* largest mean so far and never decreases
C9_Checkpoint ==
  /\ [](hp.is_training =>
          /\ \A i \in 1..Len(saves) :
               /\ saves[i] % AvgWindow = 0
               /\ saves[i] \div AvgWindow \in 1..Len(means)
               /\ \A j \in 1..((saves[i] \div AvgWindow) - 1) :
                    Greater(means[saves[i] \div AvgWindow], means[j])
          /\ means # <<>> => saves # <<>> /\ saves[1] = AvgWindow
          /\ IF means = <<>> THEN best_average_reward = NegInf
             ELSE /\ \E k \in 1..Len(means) : best_average_reward = means[k]
                  /\ \A k \in 1..Len(means) : AtLeast(best_average_reward, means[k]))
  /\ [][AtLeast(best_average_reward', best_average_reward)]_vars

\* three checks, of which the second did not save
C9_Witness ==
  /\ hp.is_training
  /\ Len(means) = 3
  /\ saves = <<AvgWindow, 3 * AvgWindow>>

\* C10: the stored terminal flag is the environment's terminated flag or the
\* step being step max_timestep - 1; truncation plays no part
C10_StoredTerminal ==
  pc = "check" =>
    Last(buffer).done = (env_out.terminated \/ step_count = hp.max_timestep - 1)

\* a step truncated by the environment before the limit, stored non-terminal
C10_Witness ==
  /\ pc = "check"
  /\ env_out.truncated /\ ~env_out.terminated
  /\ step_count < hp.max_timestep - 1
  /\ ~Last(buffer).done

====
